---- MODULE Spec2Model ----
(***************************************************************************)
(* Live-session service of src/main.go (the second, complete copy of the   *)
(* program in that file, lines 341-831): the live_sessions table, the      *)
(* handlers createLiveSession, getLiveSession, startLiveSession,           *)
(* endLiveSession and handleLiveStatusCallback, and the helpers they call. *)
(*                                                                         *)
(* Every handler runs on its own goroutine (one per HTTP request).  The    *)
(* only shared state is the table, which a handler touches one SQL         *)
(* statement at a time; each statement is one atomic step here.  Start,    *)
(* End, Get and the callback issue a single statement, so the whole        *)
(* handler is one step; Create issues INSERT, then calls the streaming     *)
(* backend, then possibly DELETE, and other requests interleave between    *)
(* those.  A finished request keeps its response in proc[p] until the      *)
(* client collects it (Return): two workers that both hold a response were *)
(* in flight at the same time.                                             *)
(*                                                                         *)
(* Any db.Exec or QueryRow may fail at the store (the `fail` input of an    *)
(* action); the handler then takes its err != nil branch.  LastInsertId    *)
(* and RowsAffected of the MySQL driver the program imports never return   *)
(* an error, so those two branches are left out.                           *)
(*                                                                         *)
(* Strings are sequences of one-character strings, so that Sprintf,        *)
(* strings.Split and the stream key are computed as the code computes      *)
(* them.                                                                   *)
(***************************************************************************)
EXTENDS Integers, Sequences, FiniteSets, TLC

\* ------------------------------------------------------------- bounds
\* concurrent request goroutines
NumWorkers == 2
\* rows the INSERT may create in one run (AUTO_INCREMENT ids 1..MaxSessions)
MaxSessions == 2
\* requests accepted in one run
MaxRequests == 4

\* ------------------------------------------------------ program constants
\* generateRandomString(10)
RandomLength == 10
\* time.Now().Unix() is time.Now().UnixNano() divided by 10^9
NanosPerSecond == 1000000000
\* len(parts) < 3
MinPathParts == 3
StatusOK == 200
StatusCreated == 201
StatusBadRequest == 400
StatusNotFound == 404
StatusInternalServerError == 500

Workers == 1..NumWorkers
SessionIds == 1..MaxSessions

\* ------------------------------------------------------------- strings
Slash == "/"
LiveLit == <<"l", "i", "v", "e">>
Underscore == <<"_">>
Digits == <<"0", "1", "2", "3", "4", "5", "6", "7", "8", "9">>

\* const charset in generateRandomString
charset ==
  <<"a", "b", "c", "d", "e", "f", "g", "h", "i", "j", "k", "l", "m",
    "n", "o", "p", "q", "r", "s", "t", "u", "v", "w", "x", "y", "z",
    "A", "B", "C", "D", "E", "F", "G", "H", "I", "J", "K", "L", "M",
    "N", "O", "P", "Q", "R", "S", "T", "U", "V", "W", "X", "Y", "Z",
    "0", "1", "2", "3", "4", "5", "6", "7", "8", "9">>

\* fmt.Sprintf("%d", n) for n >= 0
RECURSIVE Itoa(_)
Itoa(n) ==
  IF n < 10 THEN <<Digits[n + 1]>>
  ELSE Itoa(n \div 10) \o <<Digits[(n % 10) + 1]>>

\* strings.Split(s, "/"): the pieces between the slashes, empty pieces kept;
\* a string without a slash (the empty string too) gives one piece.
RECURSIVE SplitFrom(_, _, _)
SplitFrom(s, i, cur) ==
  IF i > Len(s) THEN <<cur>>
  ELSE IF s[i] = Slash THEN <<cur>> \o SplitFrom(s, i + 1, <<>>)
  ELSE SplitFrom(s, i + 1, Append(cur, s[i]))

\* the path taken as if it began with a slash
Split_LeadingSlash(s) == SplitFrom(<<Slash>> \o s, 1, <<>>)
Split(s) == SplitFrom(s, 1, <<>>)

\* ---------------------------------------------------------- stream key
\* generateRandomString: `length` bytes, byte i is
\* charset[time.Now().UnixNano() % len(charset)].  The i-th clock reading is
\* t + i*d: t is the clock when the loop starts and d what the clock
\* advances between two readings (0 on a clock coarser than the loop).
generateRandomString(length, t, d) ==
  [i \in 1..length |-> charset[((t + (i - 1) * d) % Len(charset)) + 1]]

\* fmt.Sprintf("live_%d_%s", time.Now().Unix(), generateRandomString(10))
generateStreamKey(t, d) ==
  LiveLit \o Underscore \o Itoa(t \div NanosPerSecond) \o Underscore
    \o generateRandomString(RandomLength, t, d)

\* config.LivegoURL, read once from config.json at startup
LivegoURL == <<"m", "s">>

\* getPlayURLs: the three endpoints, Sprintf'ed from config.LivegoURL and the key
getPlayURLs(streamKey) ==
  [proto \in {"rtmp", "flv", "hls"} |->
     CASE proto = "rtmp" ->
            <<"r", "t", "m", "p", ":", "/", "/">> \o LivegoURL
              \o <<"/">> \o LiveLit \o <<"/">> \o streamKey
       [] proto = "flv" ->
            <<"h", "t", "t", "p", ":", "/", "/">> \o LivegoURL
              \o <<":", "7", "0", "0", "1", "/">> \o LiveLit \o <<"/">>
              \o streamKey \o <<".", "f", "l", "v">>
       [] OTHER ->
            <<"h", "t", "t", "p", ":", "/", "/">> \o LivegoURL
              \o <<":", "7", "0", "0", "2", "/">> \o LiveLit \o <<"/">>
              \o streamKey \o <<".", "m", "3", "u", "8">>]

\* LiveSession.PlayURLs before it is assigned: a nil map
NoPlayURLs == [proto \in {} |-> <<>>]


\* ------------------------------------------------------------ inputs
\* course_id of a Create request; 0 is also what a body without the field
\* binds to, and binding:"required" rejects both.
CourseIds == {0, 1}
\* instants the wall clock is read at, in nanoseconds: one second apart
ClockInstants == {0, NanosPerSecond}
\* clock advance between two readings of generateRandomString's loop
LoopAdvance == {0, 1}
\* "status" of a callback body
CallbackStatuses == {"start", "stop", "publish"}
\* a stream key no session was created with
UnknownKey == <<"n", "o", "k", "e", "y">>

\* ------------------------------------------------------------- state
VARIABLES
  rows,     \* table live_sessions: id -> row, for the ids that have a row
  nextId,   \* the table's AUTO_INCREMENT counter
  now,      \* wall clock, nanoseconds
  proc,     \* per worker: the request it is handling, and its response
  issued    \* requests accepted so far

vars == <<rows, nextId, now, proc, issued>>

\* the quiz tables, and the quiz requests in flight
VARIABLES
  questions,    \* table questions: id -> row, for the ids that have a row
  nextQuestion, \* the table's AUTO_INCREMENT counter
  answers,      \* table answers, in insertion order
  tally,        \* the getResult request in flight
  reply         \* the last response of createQuestion or submitAnswer

quizVars == <<questions, nextQuestion, answers, tally, reply>>

\* A DATETIME column holds NULL or one time (seconds); a time.Time field
\* left at its zero value is written the same way.
NULL == {}
\* start_time and end_time of a freshly inserted row: the INSERT names
\* neither column, so each takes the column default of the table.
ColumnDefault == NULL

\* NOW() of MySQL, time.Now() truncated to the second
SqlNow == now \div NanosPerSecond

Resp(code, body) == [code |-> code, body |-> body]
ErrorBody(text) == [kind |-> "error", text |-> text]
MessageBody(text) == [kind |-> "message", text |-> text]
NoResp == Resp(0, [kind |-> "none"])

\* a LiveSession value as c.JSON writes it
SessionBody(id, course, key, status, st, et, ct, urls) ==
  [kind |-> "session", id |-> id, course_id |-> course, stream_key |-> key,
   status |-> status, start_time |-> st, end_time |-> et, created_at |-> ct,
   play_urls |-> urls]

\* `json:"play_urls,omitempty"`: the member is written unless the map is empty
HasPlayURLs(body) == DOMAIN body.play_urls # {}

Idle ==
  [op |-> "none", pc |-> "idle", id |-> 0, course |-> 0, key |-> <<>>,
   path |-> <<>>, event |-> "", failed |-> FALSE, seen |-> <<>>,
   hit |-> {}, affected |-> 0, resp |-> NoResp]

\* tally.found and tally.recorded keep, beside the response, what the two
\* queries of getResult met: whether the question had a row, and the texts of
\* the answers the table held for it when the second query ran
TallyIdle ==
  [pc |-> "idle", id |-> 0, correctAnswer |-> "", failed |-> FALSE,
   found |-> FALSE, recorded |-> <<>>, resp |-> NoResp]

\* What the store did with the request's statement, kept beside the
\* response:  proc[p].seen maps each row the statement's id or stream-key
\* condition selected to the status the row had when the store evaluated the
\* statement (empty: no such row, or the statement failed); proc[p].hit are
\* the rows it changed; proc[p].affected is RowsAffected().
Selected(ids) == [i \in ids |-> rows[i].status]

Init ==
  /\ rows = [i \in {} |-> 0]
  /\ nextId = 1
  /\ now = 0
  /\ proc = [p \in Workers |-> Idle]
  /\ issued = 0
  /\ questions = [i \in {} |-> 0]
  /\ nextQuestion = 1
  /\ answers = <<>>
  /\ tally = TallyIdle
  /\ reply = NoResp

\* A request arrives and an idle worker takes it.  The workers are
\* interchangeable goroutines, so it is always the first idle one.
Accept(p) ==
  /\ proc[p].pc = "idle"
  /\ \A q \in Workers : q < p => proc[q].pc # "idle"
  /\ issued < MaxRequests
  /\ issued' = issued + 1

\* UPDATE live_sessions SET ... WHERE ...: one atomic statement; `updated`
\* maps each row the WHERE clause matched to the row the SET clause makes it
UpdateRows(updated) ==
  [i \in DOMAIN rows |-> IF i \in DOMAIN updated THEN updated[i] ELSE rows[i]]

\* ------------------------------------------------------------- Create
\* a binding that accepts a body without a course reference
BindCreate_AcceptsMissing(course) == TRUE
\* c.ShouldBindJSON with binding:"required" on an int
BindCreate(course) == course # 0

\* INSERT INTO live_sessions (course_id, stream_key, status, created_at)
\* VALUES (?, ?, 'pending', NOW())
InsertedRow(course, key) ==
  [course_id |-> course, stream_key |-> key, status |-> "pending",
   start_time |-> ColumnDefault, end_time |-> ColumnDefault,
   created_at |-> {SqlNow}]

\* The INSERT is refused by the table itself only if a constraint of the
\* table says so.  The handler checks nothing before inserting, and the table
\* is taken to carry no uniqueness constraint on stream_key.
InsertRejected(key) == FALSE

\* the 201 body: the literal LiveSession of createLiveSession
CreatedBody(id, course, key) ==
  SessionBody(id, course, key, "pending", NULL, NULL, {SqlNow},
              getPlayURLs(key))

\* the DELETE without its WHERE clause
DeleteRow_EveryRow(id) == [i \in {} |-> rows[i]]
\* DELETE FROM live_sessions WHERE id = ?
DeleteRow(id) == [i \in DOMAIN rows \ {id} |-> rows[i]]

\* createLiveSession up to and including the INSERT
CreateInsert(p, course, d, fail) ==
  /\ UNCHANGED quizVars
  /\ Accept(p)
  /\ IF ~BindCreate(course)
       THEN /\ proc' = [proc EXCEPT ![p] =
                 [Idle EXCEPT !.op = "create", !.pc = "done",
                    !.course = course,
                    !.resp = Resp(StatusBadRequest, ErrorBody("binding"))]]
            /\ UNCHANGED <<rows, nextId>>
       ELSE LET streamKey == generateStreamKey(now, d) IN
            IF fail \/ InsertRejected(streamKey)
              THEN /\ proc' = [proc EXCEPT ![p] =
                        [Idle EXCEPT !.op = "create", !.pc = "done",
                           !.course = course, !.key = streamKey,
                           !.failed = TRUE,
                           !.resp = Resp(StatusInternalServerError,
                                     ErrorBody("Failed to create live session"))]]
                   /\ UNCHANGED <<rows, nextId>>
              ELSE /\ nextId <= MaxSessions
                   /\ rows' = [i \in DOMAIN rows \cup {nextId} |->
                                 IF i = nextId THEN InsertedRow(course, streamKey)
                                 ELSE rows[i]]
                   /\ nextId' = nextId + 1
                   /\ proc' = [proc EXCEPT ![p] =
                        [Idle EXCEPT !.op = "create", !.pc = "provision",
                           !.course = course, !.key = streamKey,
                           !.id = nextId, !.hit = {nextId},
                           !.affected = 1]]
  /\ UNCHANGED now

\* createStreamInLivego and, when it succeeds, the 201 response
CreateProvision(p, ok) ==
  /\ UNCHANGED quizVars
  /\ proc[p].pc = "provision"
  /\ proc' = [proc EXCEPT ![p] =
       IF ok
         THEN [proc[p] EXCEPT !.pc = "done",
                 !.resp = Resp(StatusCreated,
                               CreatedBody(proc[p].id, proc[p].course, proc[p].key))]
         ELSE [proc[p] EXCEPT !.pc = "rollback"]]
  /\ UNCHANGED <<rows, nextId, now, issued>>

\* the compensating DELETE, its result dropped, and the 500 response
CreateRollback(p, fail) ==
  /\ UNCHANGED quizVars
  /\ proc[p].pc = "rollback"
  /\ rows' = IF fail THEN rows ELSE DeleteRow(proc[p].id)
  /\ proc' = [proc EXCEPT ![p] =
       [proc[p] EXCEPT !.pc = "done", !.failed = fail,
          !.resp = Resp(StatusInternalServerError,
                        ErrorBody("Failed to create stream in Livego"))]]
  /\ UNCHANGED <<nextId, now, issued>>

\* ---------------------------------------------------------------- Get
\* Scan into LiveSession.StartTime / EndTime, both time.Time: database/sql
\* cannot store a NULL into a time.Time and Scan returns an error for it.
ScanFails(r) == r.start_time = NULL \/ r.end_time = NULL

\* if session.Status == "live" { session.PlayURLs = getPlayURLs(...) }
GetPlayURLs(r) == IF r.status = "live" THEN getPlayURLs(r.stream_key) ELSE NoPlayURLs

GetResponse(id, fail) ==
  IF fail THEN Resp(StatusInternalServerError, ErrorBody("Failed to get live session"))
  ELSE IF id \notin DOMAIN rows
    THEN Resp(StatusNotFound, ErrorBody("Live session not found"))
  ELSE IF ScanFails(rows[id])
    THEN Resp(StatusInternalServerError, ErrorBody("Failed to get live session"))
  ELSE LET r == rows[id] IN
       Resp(StatusOK, SessionBody(id, r.course_id, r.stream_key, r.status,
                                  r.start_time, r.end_time, r.created_at,
                                  GetPlayURLs(r)))

getLiveSession(p, id, fail) ==
  /\ UNCHANGED quizVars
  /\ Accept(p)
  /\ proc' = [proc EXCEPT ![p] =
       [Idle EXCEPT !.op = "get", !.pc = "done", !.id = id, !.failed = fail,
          !.seen = IF fail THEN <<>> ELSE Selected({id} \cap DOMAIN rows),
          !.resp = GetResponse(id, fail)]]
  /\ UNCHANGED <<rows, nextId, now>>

\* -------------------------------------------------------- Start / End
\* the status guard left out of the WHERE clause
StartWhere_NoGuard(r) == TRUE
\* WHERE id = ? AND status = 'pending'
StartWhere(r) == r.status = "pending"
\* SET status = 'live', start_time = NOW()
StartSet(r) == [r EXCEPT !.status = "live", !.start_time = {SqlNow}]
\* End guarding on "not ended yet" instead of "live"
EndWhere_NotEnded(r) == r.status # "ended"
\* WHERE id = ? AND status = 'live'
EndWhere(r) == r.status = "live"
\* End stamping the start time again
EndSet_RestampsStart(r) ==
  [r EXCEPT !.status = "ended", !.end_time = {SqlNow}, !.start_time = {SqlNow}]
\* SET status = 'ended', end_time = NOW()
EndSet(r) == [r EXCEPT !.status = "ended", !.end_time = {SqlNow}]

\* Start answering success without looking at RowsAffected()
StartResponse_IgnoresAffected(fail, rowsAffected) ==
  IF fail
    THEN Resp(StatusInternalServerError, ErrorBody("Failed to start live session"))
  ELSE Resp(StatusOK, MessageBody("Live session started successfully"))

StartResponse(fail, rowsAffected) ==
  IF fail
    THEN Resp(StatusInternalServerError, ErrorBody("Failed to start live session"))
  ELSE IF rowsAffected = 0
    THEN Resp(StatusBadRequest, ErrorBody("Live session not found or already started"))
  ELSE Resp(StatusOK, MessageBody("Live session started successfully"))

EndResponse(fail, rowsAffected) ==
  IF fail
    THEN Resp(StatusInternalServerError, ErrorBody("Failed to end live session"))
  ELSE IF rowsAffected = 0
    THEN Resp(StatusBadRequest, ErrorBody("Live session not found or already ended"))
  ELSE Resp(StatusOK, MessageBody("Live session ended successfully"))

startLiveSession(p, id, fail) ==
  /\ UNCHANGED quizVars
  /\ Accept(p)
  /\ LET selected == IF fail THEN {} ELSE {i \in DOMAIN rows : i = id}
         matched == {i \in selected : StartWhere(rows[i])}
     IN /\ rows' = UpdateRows([i \in matched |-> StartSet(rows[i])])
        /\ proc' = [proc EXCEPT ![p] =
             [Idle EXCEPT !.op = "start", !.pc = "done", !.id = id,
                !.failed = fail,
                !.seen = Selected(selected), !.hit = matched,
                !.affected = Cardinality(matched),
                !.resp = StartResponse(fail, Cardinality(matched))]]
  /\ UNCHANGED <<nextId, now>>

endLiveSession(p, id, fail) ==
  /\ UNCHANGED quizVars
  /\ Accept(p)
  /\ LET selected == IF fail THEN {} ELSE {i \in DOMAIN rows : i = id}
         matched == {i \in selected : EndWhere(rows[i])}
     IN /\ rows' = UpdateRows([i \in matched |-> EndSet(rows[i])])
        /\ proc' = [proc EXCEPT ![p] =
             [Idle EXCEPT !.op = "end", !.pc = "done", !.id = id,
                !.failed = fail,
                !.seen = Selected(selected), !.hit = matched,
                !.affected = Cardinality(matched),
                !.resp = EndResponse(fail, Cardinality(matched))]]
  /\ UNCHANGED <<nextId, now>>


\* ----------------------------------------------------------- callback
\* stream paths a callback may carry: /live/<key> for the stream keys in the
\* table and for one that is not, live/<key> (one slash short), and the empty
\* path of a body without the field
StoredKeys == {rows[i].stream_key : i \in DOMAIN rows}
WellFormedPath(k) == <<Slash>> \o LiveLit \o <<Slash>> \o k
ShortPath(k) == LiveLit \o <<Slash>> \o k
StreamPaths ==
  {WellFormedPath(k) : k \in StoredKeys \cup {UnknownKey}}
    \cup {ShortPath(k) : k \in StoredKeys}
    \cup {<<>>}

\* the comparison off by one
PathRejected_OffByOne(parts) == Len(parts) <= MinPathParts
\* if len(parts) < 3 { 400 }
PathRejected(parts) == Len(parts) < MinPathParts
\* streamKey := parts[2]
PathStreamKey(parts) == parts[3]

\* the stop callback guarding on "not ended yet" instead of "live"
CallbackStopWhere_NotEnded(r) == r.status # "ended"
\* the start callback without its status guard
CallbackStartWhere_NoGuard(r) == TRUE
\* WHERE stream_key = ? AND status = 'pending' / 'live'
CallbackStartWhere(r) == r.status = "pending"
CallbackStopWhere(r) == r.status = "live"
\* SET status = 'live', start_time = NOW() / status = 'ended', end_time = NOW()
CallbackStartSet(r) == [r EXCEPT !.status = "live", !.start_time = {SqlNow}]
CallbackStopSet(r) == [r EXCEPT !.status = "ended", !.end_time = {SqlNow}]

InvalidPathResponse == Resp(StatusBadRequest, ErrorBody("Invalid stream path"))
\* the last statement of the handler; the results of both db.Exec are dropped
CallbackResponse == Resp(StatusOK, MessageBody("Callback received"))

\* bound: ShouldBindJSON accepted the body.  fail: the UPDATE, if one is
\* issued, fails at the store.
handleLiveStatusCallback(p, path, event, bound, fail) ==
  /\ UNCHANGED quizVars
  /\ Accept(p)
  /\ IF ~bound
       THEN /\ proc' = [proc EXCEPT ![p] =
                 [Idle EXCEPT !.op = "callback", !.pc = "done",
                    !.resp = Resp(StatusBadRequest, ErrorBody("binding"))]]
            /\ UNCHANGED rows
     ELSE IF PathRejected(Split(path))
       THEN /\ proc' = [proc EXCEPT ![p] =
                 [Idle EXCEPT !.op = "callback", !.pc = "done", !.path = path,
                    !.event = event, !.resp = InvalidPathResponse]]
            /\ UNCHANGED rows
     ELSE LET streamKey == PathStreamKey(Split(path))
              executes == event \in {"start", "stop"} /\ ~fail
              selected == IF executes
                            THEN {i \in DOMAIN rows : rows[i].stream_key = streamKey}
                            ELSE {}
              matched == {i \in selected :
                            IF event = "start" THEN CallbackStartWhere(rows[i])
                            ELSE CallbackStopWhere(rows[i])}
          IN /\ rows' = IF event = "start"
                          THEN UpdateRows([i \in matched |-> CallbackStartSet(rows[i])])
                          ELSE UpdateRows([i \in matched |-> CallbackStopSet(rows[i])])
             /\ proc' = [proc EXCEPT ![p] =
                  [Idle EXCEPT !.op = "callback", !.pc = "done", !.path = path,
                     !.event = event, !.key = streamKey,
                     !.failed = (fail /\ event \in {"start", "stop"}),
                     !.seen = Selected(selected), !.hit = matched,
                     !.affected = Cardinality(matched),
                     !.resp = CallbackResponse]]
  /\ UNCHANGED <<nextId, now>>

\* ------------------------------------------------------------ the rest
\* the client has its response; the worker takes the next request
Return(p) ==
  /\ UNCHANGED quizVars
  /\ proc[p].pc = "done"
  /\ proc' = [proc EXCEPT ![p] = Idle]
  /\ UNCHANGED <<rows, nextId, now, issued>>

\* time passes
Tick ==
  /\ UNCHANGED quizVars
  /\ \E t \in ClockInstants : t > now /\ now' = t
  /\ UNCHANGED <<rows, nextId, proc, issued>>

Next ==
  \/ \E p \in Workers, course \in CourseIds, d \in LoopAdvance, fail \in BOOLEAN :
       CreateInsert(p, course, d, fail)
  \/ \E p \in Workers, ok \in BOOLEAN : CreateProvision(p, ok)
  \/ \E p \in Workers, fail \in BOOLEAN : CreateRollback(p, fail)
  \/ \E p \in Workers, id \in SessionIds, fail \in BOOLEAN :
       getLiveSession(p, id, fail)
  \/ \E p \in Workers, id \in SessionIds, fail \in BOOLEAN :
       startLiveSession(p, id, fail)
  \/ \E p \in Workers, id \in SessionIds, fail \in BOOLEAN :
       endLiveSession(p, id, fail)
  \/ \E p \in Workers, path \in StreamPaths, event \in CallbackStatuses,
        bound \in BOOLEAN, fail \in BOOLEAN :
       handleLiveStatusCallback(p, path, event, bound, fail)
  \/ \E p \in Workers : Return(p)
  \/ Tick

\* ======================================================== classroom quiz
MaxQuestions == 2
MaxAnswers == 3

QuestionIds == 1 .. MaxQuestions
\* answer texts; the empty string is what binding:"required" rejects
AnswerTexts == {"A", "B"}
StudentIds == {0, 1}

ResultBody(total, correct) ==
  [kind |-> "result", total_count |-> total, correct_count |-> correct]

\* POST /api/question/create.  The Question struct carries no binding tag, so only a
\* body that is not JSON of that shape is refused.  The columns type, content
\* and options are written here and read by pushQuestion alone.
createQuestion(course, answer, bound, fail) ==
  /\ UNCHANGED vars
  /\ nextQuestion <= MaxQuestions
  /\ IF ~bound
       THEN /\ reply' = Resp(StatusBadRequest, ErrorBody("bind"))
            /\ UNCHANGED <<questions, nextQuestion>>
       ELSE IF fail
         THEN /\ reply' = Resp(StatusInternalServerError,
                               ErrorBody("Failed to create question"))
              /\ UNCHANGED <<questions, nextQuestion>>
         ELSE /\ questions' =
                   [i \in DOMAIN questions \cup {nextQuestion} |->
                      IF i = nextQuestion
                        THEN [course_id |-> course, answer |-> answer]
                        ELSE questions[i]]
              /\ nextQuestion' = nextQuestion + 1
              /\ reply' = Resp(StatusCreated,
                               [kind |-> "question", id |-> nextQuestion,
                                course_id |-> course, answer |-> answer])
  /\ UNCHANGED <<answers, tally>>

\* binding:"required" on question_id, student_id and answer
BindAnswer(question, student, answer) ==
  question # 0 /\ student # 0 /\ answer # ""

\* POST /api/question/submit: the row is inserted whether or not the
\* question exists
submitAnswer(question, student, answer, fail) ==
  /\ UNCHANGED vars
  /\ Len(answers) < MaxAnswers
  /\ IF ~BindAnswer(question, student, answer)
       THEN /\ reply' = Resp(StatusBadRequest, ErrorBody("bind"))
            /\ UNCHANGED answers
       ELSE IF fail
         THEN /\ reply' = Resp(StatusInternalServerError,
                               ErrorBody("Failed to submit answer"))
              /\ UNCHANGED answers
         ELSE /\ answers' = Append(answers,
                              [question_id |-> question,
                               student_id |-> student, answer |-> answer])
              /\ reply' = Resp(StatusOK,
                               MessageBody("Answer submitted successfully"))
  /\ UNCHANGED <<questions, nextQuestion, tally>>

\* GET /api/question/result/:question_id, first query:
\* SELECT answer FROM questions WHERE id = ?
getResultAnswer(id, fail) ==
  /\ UNCHANGED vars
  /\ tally.pc = "idle"
  /\ tally' =
       IF fail
         THEN [TallyIdle EXCEPT !.pc = "done", !.id = id, !.failed = TRUE,
                 !.resp = Resp(StatusInternalServerError,
                               ErrorBody("Failed to get correct answer"))]
       ELSE IF id \notin DOMAIN questions
         THEN [TallyIdle EXCEPT !.pc = "done", !.id = id,
                 !.resp = Resp(StatusNotFound, ErrorBody("Question not found"))]
       ELSE [TallyIdle EXCEPT !.pc = "count", !.id = id, !.found = TRUE,
               !.correctAnswer = questions[id].answer]
  /\ UNCHANGED <<questions, nextQuestion, answers, reply>>

\* the rows of answers WHERE question_id = ?
AnswersTo(id) == SelectSeq(answers, LAMBDA a : a.question_id = id)

\* COUNT(*)
CountAll(matched) == Len(matched)

\* SUM(CASE WHEN answer = ? THEN 1 ELSE 0 END): the sum of one number per
\* row, and NULL when there is no row
SumCorrect(matched, correct) ==
  IF matched = <<>> THEN NULL
  ELSE {Len(SelectSeq(matched, LAMBDA a : a.answer = correct))}

\* Scan into an int: database/sql cannot store a NULL into an int and Scan
\* returns an error for it
ScanIntFails(column) == column = NULL

IntOf(column) == CHOOSE n \in column : TRUE

\* second query and the response
getResultCount(fail) ==
  /\ UNCHANGED vars
  /\ tally.pc = "count"
  /\ LET matched == AnswersTo(tally.id)
         sum == SumCorrect(matched, tally.correctAnswer)
     IN tally' =
          IF fail
            THEN [tally EXCEPT !.pc = "done", !.failed = TRUE,
                    !.resp = Resp(StatusInternalServerError,
                                  ErrorBody("Failed to get result"))]
          ELSE IF ScanIntFails(sum)
            THEN [tally EXCEPT !.pc = "done",
                    !.recorded = [k \in DOMAIN matched |-> matched[k].answer],
                    !.resp = Resp(StatusInternalServerError,
                                  ErrorBody("Failed to get result"))]
          ELSE [tally EXCEPT !.pc = "done",
                  !.recorded = [k \in DOMAIN matched |-> matched[k].answer],
                  !.resp = Resp(StatusOK,
                                ResultBody(CountAll(matched), IntOf(sum)))]
  /\ UNCHANGED <<questions, nextQuestion, answers, reply>>

\* the client has the result
ResultReturn ==
  /\ UNCHANGED vars
  /\ tally.pc = "done"
  /\ tally' = TallyIdle
  /\ UNCHANGED <<questions, nextQuestion, answers, reply>>

QuizNext ==
  \/ \E course \in CourseIds, answer \in AnswerTexts, bound \in BOOLEAN,
        fail \in BOOLEAN : createQuestion(course, answer, bound, fail)
  \/ \E question \in {0} \cup QuestionIds, student \in StudentIds,
        answer \in AnswerTexts \cup {""}, fail \in BOOLEAN :
       submitAnswer(question, student, answer, fail)
  \/ \E id \in QuestionIds, fail \in BOOLEAN : getResultAnswer(id, fail)
  \/ \E fail \in BOOLEAN : getResultCount(fail)
  \/ ResultReturn


\* the live-session service; no handler of it touches the quiz tables
Spec == Init /\ [][Next]_<<vars, quizVars>>

\* the quiz service; no handler of it touches the live-session table
QuizSpec == Init /\ [][QuizNext]_<<vars, quizVars>>


\* ======================================================== properties
Done(p) == proc[p].pc = "done"
\* the statement of p's request reached the store and was evaluated
Executed(p) == Done(p) /\ ~proc[p].failed
SeenStatuses(p) == {proc[p].seen[i] : i \in DOMAIN proc[p].seen}
\* p's request has just been handled in this step
Handles(p, op) == proc[p].pc = "idle" /\ proc'[p].op = op
\* slash-delimited segments of a path: one more than its slashes
SegmentCount(path) == 1 + Cardinality({i \in 1..Len(path) : path[i] = Slash})
\* the status a request moves a session into
Into(p) ==
  IF proc[p].op = "start" \/ (proc[p].op = "callback" /\ proc[p].event = "start")
    THEN "live"
  ELSE IF proc[p].op = "end" \/ (proc[p].op = "callback" /\ proc[p].event = "stop")
    THEN "ended"
  ELSE "none"

LegalStatusStep(a, b) ==
  \/ a = b
  \/ a = "pending" /\ b = "live"
  \/ a = "live" /\ b = "ended"

\* C1: in every step of every interleaving of Create, Start, End, Get and
\* callbacks, a session that keeps its row keeps its status or moves
\* pending -> live or live -> ended (never out of ended, never pending ->
\* ended); and an End, or a stop callback, that the store evaluates against a
\* pending session leaves it pending, End answering 400.
C1_StatusOnlyForward ==
  [][ /\ \A i \in DOMAIN rows \cap DOMAIN rows' :
           LegalStatusStep(rows[i].status, rows'[i].status)
      /\ \A p \in Workers :
           /\ Handles(p, "end") /\ ~proc'[p].failed
              /\ proc'[p].id \in DOMAIN rows
              /\ rows[proc'[p].id].status = "pending"
              => /\ rows' = rows
                 /\ proc'[p].resp.code = StatusBadRequest
           /\ Handles(p, "callback") /\ proc'[p].event = "stop"
              => \A i \in DOMAIN rows :
                   rows[i].status = "pending" => rows'[i] = rows[i]
    ]_vars

\* an End was answered 400 for a session that is still pending
C1_Witness ==
  \E p \in Workers :
    /\ Executed(p) /\ proc[p].op = "end"
    /\ proc[p].resp.code = StatusBadRequest
    /\ proc[p].id \in DOMAIN rows
    /\ rows[proc[p].id].status = "pending"
    /\ SeenStatuses(p) = {"pending"}

\* C2: of two Start requests in flight together for the same id, both
\* evaluated by the store, at least one of which found the session pending:
\* exactly one answers 200 and the other 400, and exactly one of them wrote
\* start_time.
C2_ConcurrentStartOneWinner ==
  \A p, q \in Workers :
    ( /\ p # q
      /\ Executed(p) /\ Executed(q)
      /\ proc[p].op = "start" /\ proc[q].op = "start"
      /\ proc[p].id = proc[q].id
      /\ "pending" \in SeenStatuses(p) \cup SeenStatuses(q) )
    => /\ {proc[p].resp.code, proc[q].resp.code} = {StatusOK, StatusBadRequest}
       /\ proc[p].affected + proc[q].affected = 1
       /\ \A w \in {p, q} :
            proc[w].resp.code = StatusOK <=> proc[w].affected = 1

\* two Starts for one session hold their responses: a 200 and a 400
C2_Witness ==
  \E p, q \in Workers :
    /\ p # q /\ Executed(p) /\ Executed(q)
    /\ proc[p].op = "start" /\ proc[q].op = "start"
    /\ proc[p].id = proc[q].id
    /\ SeenStatuses(p) = {"pending"} /\ SeenStatuses(q) = {"live"}
    /\ proc[p].resp.code = StatusOK /\ proc[q].resp.code = StatusBadRequest


\* C3: in every response that carries a session body (Create's 201, Get's
\* 200) the playback endpoints are present exactly when the status in that
\* body is live, and when present they are getPlayURLs of the body's stream
\* key.
C3_EndpointsIffLive ==
  \A p \in Workers :
    Done(p) /\ proc[p].resp.body.kind = "session"
    => /\ HasPlayURLs(proc[p].resp.body) <=> proc[p].resp.body.status = "live"
       /\ HasPlayURLs(proc[p].resp.body)
            => proc[p].resp.body.play_urls
                 = getPlayURLs(proc[p].resp.body.stream_key)

\* C4: once a Create has answered that provisioning failed, the row its
\* INSERT created is not in the table.
C4_NoRowAfterProvisionFailure ==
  \A p \in Workers :
    ( /\ Done(p) /\ proc[p].op = "create"
      /\ proc[p].resp = Resp(StatusInternalServerError,
                             ErrorBody("Failed to create stream in Livego")) )
    => proc[p].id \notin DOMAIN rows

\* C5: a Get whose SELECT the store evaluated answers 404 exactly when the
\* id has no row, and otherwise 200 with the stored status (pending, live or
\* ended alike), with the endpoints exactly for live.
C5_GetReturnsStoredStatus ==
  \A p \in Workers :
    Executed(p) /\ proc[p].op = "get"
    => IF DOMAIN proc[p].seen = {}
         THEN proc[p].resp.code = StatusNotFound
         ELSE /\ proc[p].resp.code = StatusOK
              /\ proc[p].resp.body.kind = "session"
              /\ proc[p].resp.body.status \in SeenStatuses(p)
              /\ HasPlayURLs(proc[p].resp.body)
                   <=> proc[p].resp.body.status = "live"


\* the prior status an id-addressed request needs
Required(op) == IF op = "start" THEN "pending" ELSE "live"

\* C6: of two Starts (or two Ends) the store evaluated, one for an id without
\* a row and one for a session that is not pending (not live), both get the
\* same status code and body; and neither changes the table.
C6_UnknownAndWrongStateAlike ==
  /\ [](\A p, q \in Workers :
          ( /\ Executed(p) /\ Executed(q)
            /\ proc[p].op \in {"start", "end"} /\ proc[q].op = proc[p].op
            /\ DOMAIN proc[p].seen = {}
            /\ DOMAIN proc[q].seen # {}
            /\ Required(proc[q].op) \notin SeenStatuses(q) )
          => proc[p].resp = proc[q].resp)
  /\ [][\A p \in Workers :
          ( /\ Handles(p, "start") \/ Handles(p, "end")
            /\ \/ proc'[p].id \notin DOMAIN rows
               \/ rows[proc'[p].id].status # Required(proc'[p].op) )
          => rows' = rows]_vars

\* a Start for an id without a row and a Start for a live session, both
\* answered 400
C6_Witness ==
  \E p, q \in Workers :
    /\ Executed(p) /\ Executed(q)
    /\ proc[p].op = "start" /\ proc[q].op = "start"
    /\ DOMAIN proc[p].seen = {} /\ SeenStatuses(q) = {"live"}
    /\ proc[p].resp.code = StatusBadRequest
    /\ proc[q].resp.code = StatusBadRequest

\* C7: a callback whose body binds and whose path has at least three
\* segments is answered 200 "Callback received", whatever its status value,
\* whether or not a session has its stream key, and when the UPDATE fails;
\* and a callback leaves the table as it is unless some session has the
\* path's stream key and is in the status the event requires.
C7_CallbackAlwaysAcknowledged ==
  /\ [](\A p \in Workers :
          ( /\ Done(p) /\ proc[p].op = "callback"
            /\ SegmentCount(proc[p].path) >= MinPathParts )
          => proc[p].resp = Resp(StatusOK, MessageBody("Callback received")))
  /\ [][\A p \in Workers :
          ( /\ Handles(p, "callback")
            /\ \A i \in DOMAIN rows :
                 \/ rows[i].stream_key # proc'[p].key
                 \/ proc'[p].event \notin {"start", "stop"}
                 \/ proc'[p].event = "start" /\ rows[i].status # "pending"
                 \/ proc'[p].event = "stop" /\ rows[i].status # "live" )
          => rows' = rows]_vars

\* a start callback for a stored session's key whose UPDATE failed at the
\* store was acknowledged, and one for an unknown key too
C7_Witness ==
  \E p, q \in Workers :
    /\ Done(p) /\ proc[p].op = "callback" /\ proc[p].failed
    /\ proc[p].key \in StoredKeys /\ proc[p].resp.code = StatusOK
    /\ Done(q) /\ proc[q].op = "callback" /\ proc[q].key = UnknownKey
    /\ proc[q].event = "start" /\ proc[q].resp.code = StatusOK

\* C8: no two rows of the table have the same stream key.
C8_StreamKeysUnique ==
  \A i, j \in DOMAIN rows :
    i # j => rows[i].stream_key # rows[j].stream_key

\* C9 (as claimed), in the case where some operation of the set performs a
\* transition: of two Start, End or callback requests in flight together, both
\* evaluated by the store against a session both selected, exactly one
\* observes a nonzero affected-row count.
C9_ExactlyOneAffected ==
  \A p, q \in Workers :
    ( /\ p # q /\ Executed(p) /\ Executed(q)
      /\ Into(p) # "none" /\ Into(q) # "none"
      /\ DOMAIN proc[p].seen \cap DOMAIN proc[q].seen # {}
      /\ proc[p].affected > 0 \/ proc[q].affected > 0 )
    => ~(proc[p].affected > 0 /\ proc[q].affected > 0)

\* C9 (amended): two Start, End or callback requests in flight together
\* change the same session only if one moves it into live and the other into
\* ended; each transition of a session is performed by at most one of them,
\* and a request reports rows affected exactly for the rows it moved.
C9_OneWinnerPerTransition ==
  \A p, q \in Workers :
    ( /\ p # q /\ Executed(p) /\ Executed(q)
      /\ Into(p) # "none" /\ Into(q) # "none" )
    => /\ proc[p].hit \cap proc[q].hit # {} => Into(p) # Into(q)
       /\ proc[p].affected = Cardinality(proc[p].hit)
       /\ \A i \in proc[p].hit : proc[p].seen[i] = Required(
              IF Into(p) = "live" THEN "start" ELSE "end")

\* a Start and a stop callback in flight together both moved session i, and
\* a second Start for it moved nothing
C9_Witness ==
  \E p, q \in Workers :
    /\ p # q /\ Executed(p) /\ Executed(q)
    /\ proc[p].op = "start" /\ proc[q].op = "callback"
    /\ proc[p].hit # {} /\ proc[p].hit = proc[q].hit

\* C10: a callback whose path has fewer than three slash-delimited segments
\* is answered 400 and its handling leaves the table as it was.
C10_ShortPathRejected ==
  /\ [](\A p \in Workers :
          ( /\ Done(p) /\ proc[p].op = "callback"
            /\ SegmentCount(proc[p].path) < MinPathParts )
          => /\ proc[p].resp.code = StatusBadRequest
             /\ proc[p].hit = {})
  /\ [][\A p \in Workers :
          ( /\ Handles(p, "callback")
            /\ SegmentCount(proc'[p].path) < MinPathParts )
          => rows' = rows]_vars

\* a start callback for live/<key> of a pending session was answered 400
\* and the session is still pending
C10_Witness ==
  \E p \in Workers, i \in DOMAIN rows :
    /\ Done(p) /\ proc[p].op = "callback" /\ proc[p].event = "start"
    /\ proc[p].path = ShortPath(rows[i].stream_key)
    /\ rows[i].status = "pending"
    /\ proc[p].resp = InvalidPathResponse

\* the number of recorded answer texts equal to the question's correct answer
CorrectAmong(recorded, correct) ==
  Cardinality({k \in DOMAIN recorded : recorded[k] = correct})

\* C11: a result request whose two queries the store evaluated answers 404
\* exactly when the question has no row, and otherwise, for every sequence of
\* answers recorded for the question, the empty one included, answers 200
\* with total_count the number of those answers and correct_count the number
\* of them whose text equals the question's correct answer.
C11_ResultCountsAnswers ==
  tally.pc = "done" /\ ~tally.failed =>
    IF tally.found
      THEN tally.resp =
             Resp(StatusOK,
                  ResultBody(Len(tally.recorded),
                             CorrectAmong(tally.recorded, tally.correctAnswer)))
      ELSE tally.resp.code = StatusNotFound

\* C12: in every reachable state a session has a start time exactly when its
\* status is live or ended and an end time exactly when it is ended; and in
\* every step a session that keeps its row keeps a timestamp it already has,
\* gets its start time only in the step that moves it pending -> live and
\* its end time only in the step that moves it live -> ended, each stamped
\* with the time of that step, so each transition happens at most once.
C12_TimestampsFollowStatus ==
  /\ [](\A i \in DOMAIN rows :
          /\ rows[i].start_time # NULL <=> rows[i].status \in {"live", "ended"}
          /\ rows[i].end_time # NULL <=> rows[i].status = "ended")
  /\ [][\A i \in DOMAIN rows \cap DOMAIN rows' :
          /\ rows[i].start_time # NULL
               => rows'[i].start_time = rows[i].start_time
          /\ rows[i].end_time # NULL
               => rows'[i].end_time = rows[i].end_time
          /\ (rows'[i].start_time # rows[i].start_time
                \/ (rows'[i].status = "live" /\ rows[i].status # "live"))
               => /\ rows[i].status = "pending" /\ rows'[i].status = "live"
                  /\ rows[i].start_time = NULL
                  /\ rows'[i].start_time = {SqlNow}
          /\ (rows'[i].end_time # rows[i].end_time
                \/ (rows'[i].status = "ended" /\ rows[i].status # "ended"))
               => /\ rows[i].status = "live" /\ rows'[i].status = "ended"
                  /\ rows[i].end_time = NULL
                  /\ rows'[i].end_time = {SqlNow}
       ]_vars

\* a session was started at one second and ended by an End request at a later
\* one
C12_Witness ==
  \E i \in DOMAIN rows, p \in Workers :
    /\ rows[i].status = "ended"
    /\ rows[i].start_time = {0}
    /\ rows[i].end_time = {1}
    /\ Executed(p) /\ proc[p].op = "end" /\ proc[p].hit = {i}

\* p handled a start callback
StartCallback(p) == proc[p].op = "callback" /\ proc[p].event = "start"

\* C13: when a Start for a session and a start callback carrying that
\* session's stream key are handled in either order, at most one of the two
\* moves the session pending -> live; the Start answers 200 only if its own
\* UPDATE moved it; and the step of the one that did not move it leaves the
\* session's start time as the other stamped it.
C13_StartRacesStartCallback ==
  /\ [](\A p \in Workers, q \in Workers :
          Done(p) /\ proc[p].op = "start" /\ Done(q) /\ StartCallback(q)
            => proc[p].hit \cap proc[q].hit = {})
  /\ [](\A p \in Workers :
          Done(p) /\ proc[p].op = "start" /\ proc[p].resp.code = StatusOK
            => proc[p].hit = {proc[p].id} /\ proc[p].affected = 1)
  /\ [][\A p \in Workers :
          Handles(p, "start") \/ (Handles(p, "callback") /\ proc'[p].event = "start")
            => \A i \in DOMAIN rows :
                 IF i \in proc'[p].hit
                   THEN /\ rows[i].status = "pending"
                        /\ rows'[i].status = "live"
                        /\ rows'[i].start_time = {SqlNow}
                   ELSE i \in DOMAIN rows' /\ rows'[i] = rows[i]
       ]_vars

\* a start callback moved a session at one second; a Start for the same
\* session, handled a second later while the callback's response is still
\* being written, answers 400 and the start time is the callback's
C13_Witness ==
  \E p \in Workers, q \in Workers :
    /\ Executed(p) /\ proc[p].op = "start"
    /\ Executed(q) /\ StartCallback(q)
    /\ proc[q].hit = {proc[p].id}
    /\ proc[p].hit = {}
    /\ proc[p].resp.code = StatusBadRequest
    /\ SqlNow = 1
    /\ rows[proc[p].id].start_time = {0}

\* C14: when a start or stop callback has moved a session and the same
\* callback (same stream path, same status) is delivered again while the
\* first delivery's response is still being written, the second delivery
\* changes no session's status or timestamps and is acknowledged with 200;
\* and a stop callback changes nothing of a session that is already ended.
C14_RedeliveryHarmless ==
  [][\A p \in Workers :
       Handles(p, "callback") =>
         /\ \A q \in Workers \ {p} :
              /\ Done(q) /\ proc[q].op = "callback" /\ proc[q].hit # {}
              /\ proc'[p].path = proc[q].path
              /\ proc'[p].event = proc[q].event
              => /\ rows' = rows
                 /\ proc'[p].resp.code = StatusOK
         /\ proc'[p].event = "stop"
              => \A i \in DOMAIN rows :
                   rows[i].status = "ended"
                     => i \in DOMAIN rows' /\ rows'[i] = rows[i]
    ]_vars

\* C15: a Create without a course reference answers 400 and a Create whose
\* INSERT fails answers 500, each leaving the table as it was and returning
\* without reaching the provisioning call; a Create reaches the provisioning
\* call only in the step that inserted its pending row under its stream key,
\* and that row is in the table when the backend is called; and a Create
\* answers 201, with status pending, only from a provisioning call that
\* succeeded after its INSERT succeeded.
C15_CreateStoreBeforeBackend ==
  [][\A p \in Workers :
       /\ Handles(p, "create") /\ proc'[p].course = 0
            => /\ proc'[p].resp.code = StatusBadRequest
               /\ proc'[p].pc = "done"
               /\ rows' = rows
       /\ Handles(p, "create") /\ proc'[p].failed
            => /\ proc'[p].resp.code = StatusInternalServerError
               /\ proc'[p].pc = "done"
               /\ rows' = rows
       /\ proc'[p].pc = "provision" /\ proc[p].pc # "provision"
            => /\ Handles(p, "create")
               /\ proc'[p].id \notin DOMAIN rows
               /\ proc'[p].id \in DOMAIN rows'
               /\ rows'[proc'[p].id].status = "pending"
               /\ rows'[proc'[p].id].stream_key = proc'[p].key
               /\ rows'[proc'[p].id].course_id = proc'[p].course
       /\ proc[p].pc = "provision" /\ proc'[p].pc # "provision"
            => /\ proc[p].id \in DOMAIN rows
               /\ rows[proc[p].id].stream_key = proc[p].key
               /\ rows' = rows
               /\ proc'[p].pc \in {"done", "rollback"}
       /\ proc'[p].pc = "rollback" /\ proc[p].pc # "rollback"
            => proc[p].pc = "provision"
       /\ proc'[p].resp.code = StatusCreated /\ proc[p].resp.code # StatusCreated
            => /\ proc[p].pc = "provision"
               /\ proc[p].op = "create" /\ ~proc[p].failed
               /\ proc[p].hit = {proc[p].id}
               /\ proc'[p].resp.body.status = "pending"
               /\ proc'[p].resp.body.id = proc[p].id
               /\ proc'[p].resp.body.stream_key = proc[p].key
    ]_vars

\* one Create was refused for its missing course reference and another has
\* been answered 201 for the only row of the table
C15_Witness ==
  \E p \in Workers, q \in Workers :
    /\ Done(p) /\ proc[p].op = "create"
    /\ proc[p].resp.code = StatusBadRequest /\ proc[p].hit = {}
    /\ Done(q) /\ proc[q].op = "create"
    /\ proc[q].resp.code = StatusCreated
    /\ DOMAIN rows = {proc[q].id}

\* the columns no handler writes after the INSERT
Identity(r) == <<r.course_id, r.stream_key, r.created_at>>

\* C16: a step of Start, End, Get or the status callback leaves the set of
\* session rows as it was; no step changes the course reference, the stream
\* key or the creation time of a row that stays; and a step removes a row
\* only if it is the compensating DELETE of a Create, which removes exactly
\* the one row that Create inserted.
C16_OnlyRollbackRemovesRows ==
  [][/\ \A p \in Workers :
          \/ Handles(p, "start") \/ Handles(p, "end")
          \/ Handles(p, "get") \/ Handles(p, "callback")
          => DOMAIN rows' = DOMAIN rows
     /\ \A i \in DOMAIN rows \cap DOMAIN rows' :
          Identity(rows'[i]) = Identity(rows[i])
     /\ DOMAIN rows \ DOMAIN rows' # {}
          => \E p \in Workers :
               /\ proc[p].op = "create"
               /\ proc[p].pc = "rollback" /\ proc'[p].pc = "done"
               /\ proc[p].hit = {proc[p].id}
               /\ DOMAIN rows \ DOMAIN rows' = {proc[p].id}
               /\ DOMAIN rows' \subseteq DOMAIN rows
    ]_vars

\* a Create has rolled its row back while the row of another session, since
\* started, is still in the table
C16_Witness ==
  \E p \in Workers, i \in DOMAIN rows :
    /\ Executed(p) /\ proc[p].op = "create"
    /\ proc[p].resp.code = StatusInternalServerError
    /\ proc[p].hit = {proc[p].id}
    /\ proc[p].id \notin DOMAIN rows
    /\ rows[i].status = "live"

\* C17: no step removes the row of a session for which a Start has answered
\* 200; that is, a row that a step removes (the compensating DELETE of a
\* Create is the only such step) is still pending when it is removed, also
\* when a Start or a start callback for the new row was handled between the
\* Create's INSERT and the failure of its provisioning call.
C17_StartedSessionNeverRemoved ==
  [][\A i \in DOMAIN rows \ DOMAIN rows' :
       /\ rows[i].status = "pending"
       /\ \A q \in Workers :
            ~(/\ Done(q) /\ proc[q].op = "start" /\ proc[q].id = i
              /\ proc[q].resp.code = StatusOK)
    ]_vars

====
